---- MODULE Spec2Model ----
(***************************************************************************)
(* A model of piston_window's PistonWindow (src/src/lib.rs): a session      *)
(* value made of shared RefCell handles (window, stream, device, g2d,       *)
(* events, factory, app) plus an optional current event, with its           *)
(* operations new, clone, app, draw_2d, draw_3d, Iterator::next and         *)
(* GenericEvent::from_args.                                                  *)
(*                                                                         *)
(* Option<T> is modelled as a sequence of length at most one.              *)
(* A RefCell's dynamic borrow state is the set `borrowed` of the handles    *)
(* that have a live borrow_mut guard; borrow_mut on a member panics.        *)
(* A draw call is split around its drawing callback (draw_2d / draw_3d up   *)
(* to the callback, then DrawEnd), so that the callback may call back into  *)
(* the API.                                                                 *)
(***************************************************************************)
EXTENDS Integers, Sequences, FiniteSets, TLC

\* ---------------------------------------------------------------- bounds
MaxEvents == 2
MaxDraws == 1

\* `as u16` (lib.rs:74, 159, 160) keeps the low 16 bits.
U16Mod == 65536

VARIABLES
    window,      \* content of the window cell: its drawable size
    stream,      \* content of the stream cell: stream.out.width/height
    events,      \* content of the events cell: the events still to come
    cleanupLog,  \* the device.cleanup() calls made so far, one record each
    borrowed,    \* handles with a live borrow_mut guard
    sessions,    \* the PistonWindow values the caller can hold (see Obtainable)
    stack,       \* draw calls whose drawing callback is running, innermost last
    panicked,    \* a borrow_mut (or unwrap) has panicked; the thread unwound
    flushes,     \* number of stream.flush(device) calls made so far
    callbacks,   \* drawing callbacks entered so far, with the argument each got
    src0,        \* the event source as it was at construction (history)
    exhausted,   \* some next() has returned None (history)
    last,        \* what the most recent API call did (history)
    phase        \* position of the canonical event loop (LoopSpec only)

vars == <<window, stream, events, cleanupLog, borrowed, sessions, stack,
          panicked, flushes, callbacks, src0, exhausted, last, phase>>

\* ---------------------------------------------------------------- Option
None == <<>>
Some(x) == <<x>>
IsSome(o) == o # <<>>
Unwrap(o) == o[1]

\* ---------------------------------------------------------------- events
\* event::Event<W::Event>: one value per kind the code distinguishes.
Render(v) == [kind |-> "render", viewport |-> v, width |-> 0, height |-> 0]
AfterRender == [kind |-> "after_render", viewport |-> 0, width |-> 0, height |-> 0]
Resize(w, h) == [kind |-> "resize", viewport |-> 0, width |-> w, height |-> h]
Update == [kind |-> "update", viewport |-> 0, width |-> 0, height |-> 0]

\* Drawable sizes a window reports: u32 values, below and above the u16 range.
Sizes == {<<800, 600>>, <<U16Mod + 800, 600>>}

\* The events the event source may hold.
EventValues ==
    {Render(1), AfterRender, Update} \cup {Resize(sz[1], sz[2]) : sz \in Sizes}

RECURSIVE SeqsUpTo(_, _)
SeqsUpTo(S, n) ==
    IF n = 0 THEN {<<>>}
    ELSE LET shorter == SeqsUpTo(S, n - 1)
         IN shorter \cup {Append(q, x) : q \in {p \in shorter : Len(p) = n - 1}, x \in S}

\* Mutant of render_args: an update tick is taken for a render request.
render_args_update(e) ==
    IF e.kind \in {"render", "update"} THEN Some(e.viewport) ELSE None

\* RenderEvent::render_args: Some(args) for a render request; args.viewport().
render_args(e) == IF e.kind = "render" THEN Some(e.viewport) ELSE None

\* Mutant of after_render_args: update ticks count as post-present too.
after_render_args_update(e) ==
    IF e.kind \in {"after_render", "update"} THEN Some("after_render") ELSE None

\* Mutant of after_render_args: a render request counts as presented.
after_render_args_render(e) ==
    IF e.kind \in {"after_render", "render"} THEN Some("after_render") ELSE None

\* AfterRenderEvent::after_render_args.
after_render_args(e) == IF e.kind = "after_render" THEN Some("after_render") ELSE None

\* ResizeEvent::resize_args.
resize_args(e) == IF e.kind = "resize" THEN Some(<<e.width, e.height>>) ELSE None

\* `x as u16`
AsU16(x) == x % U16Mod

\* ---------------------------------------------------------------- handles
\* The Rc<RefCell<_>> cells allocated by PistonWindow::new, one of each.
RootHandles ==
    [window |-> "window", stream |-> "stream", device |-> "device",
     g2d |-> "g2d", events |-> "events", factory |-> "factory"]

RootApp == "app"
NewApp == "app2"
Apps == {RootApp, NewApp}

\* struct PistonWindow<W, T>
PistonWindow(w, s, d, g, ev, e, a, f) ==
    [window |-> w, stream |-> s, device |-> d, g2d |-> g, events |-> ev,
     event |-> e, app |-> a, factory |-> f]

\* The session PistonWindow::new returns: the fresh cells, event: None.
Root ==
    PistonWindow(RootHandles.window, RootHandles.stream, RootHandles.device,
                 RootHandles.g2d, RootHandles.events, None, RootApp,
                 RootHandles.factory)

\* Mutant of CanBorrowMut: the borrow flag is not checked.
CanBorrowMut_unchecked(h) == TRUE

\* RefCell::borrow_mut succeeds iff the cell has no live borrow.
CanBorrowMut(h) == h \notin borrowed

\* ---------------------------------------------------------------- history
\* The record kept of one API call: receiver, returned session, pulled event,
\* whether its callback (drawing callback or payload visitor) was entered,
\* the flushes it issued, how it ended, the order of its steps on the shared
\* cells, the number of drawing callbacks that were running when it was
\* made, the value it returned when that is not a session, and what the
\* event type's own from_args returned to it.
Call(op, recv, result, pulled, ran, flushed, status, effects) ==
    [op |-> op, recv |-> recv, result |-> result, pulled |-> pulled,
     ran |-> ran, flushed |-> flushed, status |-> status,
     effects |-> effects, depth |-> Len(stack), value |-> None,
     arg |-> None]

\* A panic unwinds the thread: every borrow guard and every frame is dropped.
Panic(op, s, pulled, effects) ==
    /\ panicked' = TRUE
    /\ stack' = <<>>
    /\ borrowed' = {}
    /\ last' = Call(op, Some(s), None, pulled, FALSE, 0, "panicked", effects)

\* ---------------------------------------------------------------- pure operations
\* Mutant of CloneOf: the stream is deep-copied into a cell of its own.
CloneOf_deep(s) ==
    PistonWindow(s.window, "stream_copy", s.device, s.g2d, s.events, s.event,
                 s.app, s.factory)

\* Clone::clone: every handle is Rc-cloned, the event is cloned.
CloneOf(s) ==
    PistonWindow(s.window, s.stream, s.device, s.g2d, s.events, s.event,
                 s.app, s.factory)

\* Mutant of AppOf: the current event is not carried over.
AppOf_noevent(s, a) ==
    PistonWindow(s.window, s.stream, s.device, s.g2d, s.events, None,
                 a, s.factory)

\* PistonWindow::app: every field is moved over except app.
AppOf(s, a) ==
    PistonWindow(s.window, s.stream, s.device, s.g2d, s.events, s.event,
                 a, s.factory)

\* Mutant of FromArgs: the prior session's event is not looked at.
FromArgs_noguard(rebuilt, old) ==
    IF IsSome(rebuilt)
    THEN Some(PistonWindow(old.window, old.stream, old.device, old.g2d,
                           old.events, Some(Unwrap(rebuilt)), old.app,
                           old.factory))
    ELSE None

\* GenericEvent::from_args: rebuilt is what the event type's own from_args
\* returns for (event_id, any, e): None, or Some of the rebuilt event.
FromArgs(rebuilt, old) ==
    IF IsSome(old.event)
    THEN IF IsSome(rebuilt)
         THEN Some(PistonWindow(old.window, old.stream, old.device, old.g2d,
                                old.events, Some(Unwrap(rebuilt)), old.app,
                                old.factory))
         ELSE None
    ELSE None

\* Outcomes of the event type's own from_args that the calls below try; the
\* rebuilt render request has another viewport than the source's.
Rebuilt == {None, Some(Render(2)), Some(AfterRender)}

\* clone, app and from_args touch no shared cell, so a caller holding the
\* sessions S can at any moment hold every session these three build from
\* S.  `sessions` is kept closed under them: it is the set of all session
\* values the caller can have obtained so far.
RECURSIVE Obtainable(_)
Obtainable(S) ==
    LET T == S \cup {CloneOf(s) : s \in S}
               \cup {AppOf(s, a) : s \in S, a \in Apps}
               \cup {Unwrap(o) : o \in {x \in {FromArgs(r, s) : r \in Rebuilt, s \in S} :
                                            IsSome(x)}}
    IN IF T = S THEN S ELSE Obtainable(T)

\* ---------------------------------------------------------------- window
\* The state of the window backend behind the shared window cell: what its
\* queries answer, which of its two buffers is shown, and its pending raw
\* events.  The logical size is the drawable size at scale factor 2.
RawResize == [input |-> "resize", width |-> 1024, height |-> 768]
RawKey == [input |-> "key", width |-> 0, height |-> 0]
Titles == {"piston", "game"}

WindowOf(sz, closing, raw) ==
    [draw_size |-> sz, size |-> <<sz[1] \div 2, sz[2] \div 2>>,
     should_close |-> closing, title |-> "piston", exit_on_esc |-> FALSE,
     capture_cursor |-> FALSE, front |-> 0, raw |-> raw]

\* ---------------------------------------------------------------- new
\* PistonWindow::new: the cells are allocated, the stream's output gets the
\* window's drawable size cast to u16, and the root session has no event.
new(w, source) ==
    /\ window = w
    /\ stream = [width |-> AsU16(w.draw_size[1]),
                 height |-> AsU16(w.draw_size[2])]
    /\ events = source
    /\ cleanupLog = <<>>
    /\ borrowed = {}
    /\ sessions = Obtainable({Root})
    /\ stack = <<>>
    /\ panicked = FALSE
    /\ flushes = 0
    /\ callbacks = <<>>
    /\ src0 = source
    /\ exhausted = FALSE
    /\ last = Call("new", None, None, None, FALSE, 0, "returned", <<>>)

\* ---------------------------------------------------------------- clone
clone(s) ==
    /\ ~panicked
    /\ sessions' = sessions \cup {CloneOf(s)}
    /\ last' = Call("clone", Some(s), Some(CloneOf(s)), None, FALSE, 0,
                    "returned", <<>>)
    /\ UNCHANGED <<window, stream, events, cleanupLog, borrowed, stack,
                   panicked, flushes, callbacks, src0, exhausted>>

\* ---------------------------------------------------------------- app
\* self is moved into the result; a caller that cloned it first still holds
\* an equal value.
app(s, a) ==
    /\ ~panicked
    /\ sessions' = sessions \cup {AppOf(s, a)}
    /\ last' = Call("app", Some(s), Some(AppOf(s, a)), None, FALSE, 0,
                    "returned", <<>>)
    /\ UNCHANGED <<window, stream, events, cleanupLog, borrowed, stack,
                   panicked, flushes, callbacks, src0, exhausted>>

\* ---------------------------------------------------------------- next
\* WindowEvents::next as called at lib.rs:150: the head of the remaining
\* events, or None when none is left.
EventsNext(q) == IF q = <<>> THEN None ELSE Some(Head(q))

\* The window whose resize the event source reports has that drawable size
\* when the notification is delivered.
WindowAfter(w, e) ==
    IF e.kind = "resize"
    THEN [w EXCEPT !.draw_size = <<e.width, e.height>>,
                   !.size = <<e.width \div 2, e.height \div 2>>]
    ELSE w

\* Mutant of Yielded: the yielded session keeps the receiver's event.
Yielded_stale(s, e) ==
    PistonWindow(s.window, s.stream, s.device, s.g2d, s.events, s.event,
                 s.app, s.factory)

\* Some(PistonWindow { ..., event: Some(e), ... }) at the end of next.
Yielded(s, e) ==
    PistonWindow(s.window, s.stream, s.device, s.g2d, s.events, Some(e),
                 s.app, s.factory)

\* stream.out.width/height = draw_size.width/height as u16
Resized(size) == [width |-> AsU16(size[1]), height |-> AsU16(size[2])]

\* Mutant of AfterNext: the receiver, and with it every session that has the
\* receiver's event, takes the pulled event.
AfterNext_inplace(S, s, y) == {x \in S : x.event # s.event} \cup {y}

\* The sessions the caller holds once next on s has yielded y: next assigns
\* no field of its receiver, so all of S as it was, and y.
AfterNext(S, s, y) == S \cup {y}

\* The order of next's steps for event e, up to (not including) the yield.
NextEffects(e) ==
    <<"pull">>
        \o (IF IsSome(after_render_args(e)) THEN <<"cleanup">> ELSE <<>>)
        \o (IF IsSome(resize_args(e)) THEN <<"resize">> ELSE <<>>)

\* Iterator::next.  The borrow_mut guard on events lives for the whole
\* `if let`; the guard on device only for the cleanup statement; the guard
\* on stream for the resize block.
next(s) ==
    /\ ~panicked
    /\ UNCHANGED <<flushes, callbacks, src0>>
    /\ IF ~CanBorrowMut(s.events)
       THEN /\ Panic("next", s, None, <<>>)
            /\ UNCHANGED <<window, stream, events, cleanupLog, sessions, exhausted>>
       ELSE IF ~IsSome(EventsNext(events))
       THEN /\ last' = Call("next", Some(s), None, None, FALSE, 0, "returned", <<>>)
            /\ exhausted' = TRUE
            /\ UNCHANGED <<window, stream, events, cleanupLog, borrowed,
                           sessions, stack, panicked>>
       ELSE LET e == Unwrap(EventsNext(events))
                win == WindowAfter(window, e)
                doCleanup == IsSome(after_render_args(e))
                cleanupOk == doCleanup => CanBorrowMut(s.device)
                doResize == IsSome(resize_args(e))
                resizeOk == doResize =>
                                CanBorrowMut(s.stream) /\ CanBorrowMut(s.window)
            IN /\ events' = Tail(events)
               /\ window' = win
               /\ UNCHANGED exhausted
               /\ cleanupLog' =
                      IF doCleanup /\ cleanupOk
                      THEN Append(cleanupLog,
                                  [flushes |-> flushes, depth |-> Len(stack)])
                      ELSE cleanupLog
               /\ stream' =
                      IF cleanupOk /\ doResize /\ resizeOk
                      THEN Resized(win.draw_size)
                      ELSE stream
               /\ IF ~cleanupOk
                  THEN /\ Panic("next", s, Some(e), <<"pull">>)
                       /\ UNCHANGED sessions
                  ELSE IF ~resizeOk
                  THEN /\ Panic("next", s, Some(e),
                                SubSeq(NextEffects(e), 1, Len(NextEffects(e)) - 1))
                       /\ UNCHANGED sessions
                  ELSE /\ sessions' = Obtainable(AfterNext(sessions, s, Yielded(s, e)))
                       /\ last' = Call("next", Some(s), Some(Yielded(s, e)),
                                       Some(e), FALSE, 0, "returned",
                                       Append(NextEffects(e), "yield"))
                       /\ UNCHANGED <<borrowed, stack, panicked>>

\* ---------------------------------------------------------------- draws
\* if let Some(ref e) = self.event { if let Some(args) = e.render_args() {..} }
RenderArgsOf(s) ==
    IF IsSome(s.event) THEN render_args(Unwrap(s.event)) ELSE None

\* A frame of a draw call whose drawing callback is running.
Frame(op, s, held, effects) ==
    [op |-> op, sess |-> s, held |-> held, effects |-> effects,
     flushes0 |-> flushes]

\* Mutant of DrawSkip: the stream is borrowed before the event is looked at.
DrawSkip_borrowfirst(op, s) ==
    IF CanBorrowMut(s.stream)
    THEN /\ last' = Call(op, Some(s), None, None, FALSE, 0, "returned", <<>>)
         /\ UNCHANGED <<borrowed, stack, panicked, callbacks>>
    ELSE /\ Panic(op, s, None, <<>>)
         /\ UNCHANGED callbacks

\* The no-op arm of draw_2d / draw_3d.
DrawSkip(op, s) ==
    /\ last' = Call(op, Some(s), None, None, FALSE, 0, "returned", <<>>)
    /\ UNCHANGED <<borrowed, stack, panicked, callbacks>>

\* draw_2d up to the point where Gfx2d::draw runs f: stream.borrow_mut(),
\* stream.access(), g2d.borrow_mut(), then f with args.viewport().
draw_2d(s) ==
    /\ ~panicked
    /\ UNCHANGED <<window, stream, events, cleanupLog, sessions, flushes,
                   src0, exhausted>>
    /\ IF ~IsSome(RenderArgsOf(s)) THEN DrawSkip("draw_2d", s)
       ELSE IF ~CanBorrowMut(s.stream)
       THEN /\ Panic("draw_2d", s, None, <<>>)
            /\ UNCHANGED callbacks
       ELSE IF ~CanBorrowMut(s.g2d)
       THEN /\ Panic("draw_2d", s, None, <<"borrow_stream">>)
            /\ UNCHANGED callbacks
       ELSE /\ borrowed' = borrowed \cup {s.stream, s.g2d}
            /\ callbacks' = Append(callbacks,
                                   [op |-> "draw_2d", arg |-> RenderArgsOf(s)])
            /\ stack' = Append(stack,
                               Frame("draw_2d", s, {s.stream, s.g2d},
                                     <<"borrow_stream", "borrow_g2d", "callback">>))
            /\ last' = Call("draw_2d", Some(s), None, None, TRUE, 0, "callback",
                            <<"borrow_stream", "borrow_g2d", "callback">>)
            /\ UNCHANGED panicked

\* draw_3d up to the point where f runs: stream.borrow_mut(), then f(stream).
draw_3d(s) ==
    /\ ~panicked
    /\ UNCHANGED <<window, stream, events, cleanupLog, sessions, flushes,
                   src0, exhausted>>
    /\ IF ~IsSome(RenderArgsOf(s)) THEN DrawSkip("draw_3d", s)
       ELSE IF ~CanBorrowMut(s.stream)
       THEN /\ Panic("draw_3d", s, None, <<>>)
            /\ UNCHANGED callbacks
       ELSE /\ borrowed' = borrowed \cup {s.stream}
            /\ callbacks' = Append(callbacks, [op |-> "draw_3d", arg |-> None])
            /\ stack' = Append(stack,
                               Frame("draw_3d", s, {s.stream},
                                     <<"borrow_stream", "callback">>))
            /\ last' = Call("draw_3d", Some(s), None, None, TRUE, 0, "callback",
                            <<"borrow_stream", "callback">>)
            /\ UNCHANGED panicked

\* The steps of a draw call after its callback has returned: draw_2d drops
\* the g2d guard, then both do stream.flush(&mut *device.borrow_mut()) and
\* drop the stream guard.
FlushEffects(op) ==
    (IF op = "draw_2d" THEN <<"release_g2d">> ELSE <<>>)
        \o <<"borrow_device", "flush", "release_device", "release_stream">>

\* Mutant of DrawEnd: the call returns without flushing.
DrawEnd_noflush ==
    /\ ~panicked
    /\ stack # <<>>
    /\ UNCHANGED <<window, stream, events, cleanupLog, sessions, callbacks,
                   src0, exhausted, flushes, panicked>>
    /\ borrowed' = borrowed \ stack[Len(stack)].held
    /\ stack' = SubSeq(stack, 1, Len(stack) - 1)
    /\ last' = [Call(stack[Len(stack)].op, Some(stack[Len(stack)].sess), None,
                     None, TRUE, 0, "returned", stack[Len(stack)].effects)
                  EXCEPT !.depth = Len(stack) - 1]

\* Mutant of DrawEnd: the stream is flushed twice.
DrawEnd_twice ==
    /\ ~panicked
    /\ stack # <<>>
    /\ UNCHANGED <<window, stream, events, cleanupLog, sessions, callbacks,
                   src0, exhausted, panicked>>
    /\ flushes' = flushes + 2
    /\ borrowed' = borrowed \ stack[Len(stack)].held
    /\ stack' = SubSeq(stack, 1, Len(stack) - 1)
    /\ last' = [Call(stack[Len(stack)].op, Some(stack[Len(stack)].sess), None,
                     None, TRUE, 2, "returned",
                     stack[Len(stack)].effects \o <<"borrow_device", "flush",
                         "flush", "release_device", "release_stream">>)
                  EXCEPT !.depth = Len(stack) - 1]

\* The innermost running callback returns and its draw call completes.
DrawEnd ==
    /\ ~panicked
    /\ stack # <<>>
    /\ UNCHANGED <<window, stream, events, cleanupLog, sessions, callbacks,
                   src0, exhausted>>
    /\ LET f == stack[Len(stack)]
           rest == SubSeq(stack, 1, Len(stack) - 1)
       IN IF ~CanBorrowMut(f.sess.device)
          THEN /\ Panic(f.op, f.sess, None, f.effects)
               /\ UNCHANGED flushes
          ELSE /\ flushes' = flushes + 1
               /\ borrowed' = borrowed \ f.held
               /\ stack' = rest
               /\ last' = [Call(f.op, Some(f.sess), None, None, TRUE, 1,
                                "returned", f.effects \o FlushEffects(f.op))
                             EXCEPT !.depth = Len(rest)]
               /\ UNCHANGED panicked

\* ---------------------------------------------------------------- from_args
\* The event type's own from_args is called only when the prior session has
\* an event; the call record keeps what it returned.
from_args(rebuilt, old) ==
    /\ ~panicked
    /\ sessions' = IF IsSome(FromArgs(rebuilt, old))
                   THEN sessions \cup {Unwrap(FromArgs(rebuilt, old))}
                   ELSE sessions
    /\ last' = [Call("from_args", Some(old), FromArgs(rebuilt, old), None,
                     FALSE, 0, "returned", <<>>)
                  EXCEPT !.arg = IF IsSome(old.event) THEN rebuilt ELSE None]
    /\ UNCHANGED <<window, stream, events, cleanupLog, borrowed, stack,
                   panicked, flushes, callbacks, src0, exhausted>>

\* ---------------------------------------------------------------- delegates
\* window::Window and window::AdvancedWindow for PistonWindow: each borrows
\* the shared window cell for the one call it forwards.  A query returns the
\* window's answer v; a command leaves the window as w2 and returns v.
WindowQuery(op, s, v) ==
    /\ ~panicked
    /\ UNCHANGED <<window, stream, events, cleanupLog, sessions, flushes,
                   callbacks, src0, exhausted>>
    /\ IF ~CanBorrowMut(s.window)
       THEN Panic(op, s, None, <<>>)
       ELSE /\ last' = [Call(op, Some(s), None, None, FALSE, 0, "returned", <<>>)
                          EXCEPT !.value = Some(v)]
            /\ UNCHANGED <<borrowed, stack, panicked>>

WindowCommand(op, s, a, w2, v) ==
    /\ ~panicked
    /\ UNCHANGED <<stream, events, cleanupLog, sessions, flushes, callbacks,
                   src0, exhausted>>
    /\ IF ~CanBorrowMut(s.window)
       THEN Panic(op, s, None, <<>>) /\ UNCHANGED window
       ELSE /\ window' = w2
            /\ last' = [Call(op, Some(s), None, None, FALSE, 0, "returned", <<>>)
                          EXCEPT !.value = v, !.arg = a]
            /\ UNCHANGED <<borrowed, stack, panicked>>

should_close(s) == WindowQuery("should_close", s, window.should_close)
size(s) == WindowQuery("size", s, window.size)
draw_size(s) == WindowQuery("draw_size", s, window.draw_size)
get_title(s) == WindowQuery("get_title", s, window.title)
get_exit_on_esc(s) == WindowQuery("get_exit_on_esc", s, window.exit_on_esc)

\* Mutant of swap_buffers: presenting the frame also runs the device cleanup.
swap_buffers_cleanup(s) ==
    /\ ~panicked
    /\ window' = [window EXCEPT !.front = 1 - @]
    /\ cleanupLog' = Append(cleanupLog, [flushes |-> flushes, depth |-> Len(stack)])
    /\ last' = Call("swap_buffers", Some(s), None, None, FALSE, 0, "returned", <<>>)
    /\ UNCHANGED <<stream, events, sessions, flushes, callbacks, src0,
                   exhausted, borrowed, stack, panicked>>

swap_buffers(s) ==
    WindowCommand("swap_buffers", s, None,
                  [window EXCEPT !.front = 1 - @], None)

\* The window hands out its oldest pending raw event, or None.
poll_event(s) ==
    WindowCommand("poll_event", s, None,
                  [window EXCEPT !.raw = IF @ = <<>> THEN @ ELSE Tail(@)],
                  Some(IF window.raw = <<>> THEN None ELSE Some(Head(window.raw))))

set_title(s, title) ==
    WindowCommand("set_title", s, Some(title),
                  [window EXCEPT !.title = title], None)

set_exit_on_esc(s, value) ==
    WindowCommand("set_exit_on_esc", s, Some(value),
                  [window EXCEPT !.exit_on_esc = value], None)

set_capture_cursor(s, value) ==
    WindowCommand("set_capture_cursor", s, Some(value),
                  [window EXCEPT !.capture_cursor = value], None)


\* ---------------------------------------------------------------- Spec
\* Any caller: any operation on any held session, at top level or from
\* inside a running drawing callback.
Init ==
    /\ \E sz \in Sizes, source \in SeqsUpTo(EventValues, MaxEvents) :
           new(WindowOf(sz, FALSE, <<>>), source)
    /\ phase = "free"

\* The record of the previous call is handed back before the next call.
Idle == last.op = "idle"

Return ==
    /\ ~Idle
    /\ ~panicked
    /\ last' = Call("idle", None, None, None, FALSE, 0, "returned", <<>>)
    /\ UNCHANGED <<window, stream, events, cleanupLog, borrowed, sessions,
                   stack, panicked, flushes, callbacks, src0, exhausted, phase>>

\* At most MaxDraws draw calls are started while the stream is free; calls
\* made while it is held are not counted.
DrawBudget(s) ==
    IF s.event = None THEN TRUE
    ELSE IF Unwrap(s.event).kind # "render" THEN TRUE
    ELSE IF s.stream \in borrowed THEN TRUE
    ELSE Len(callbacks) < MaxDraws

Advance == Idle /\ \E s \in sessions : next(s) /\ UNCHANGED phase
Clone == Idle /\ \E s \in sessions : clone(s) /\ UNCHANGED phase
App == Idle /\ \E s \in sessions : \E a \in Apps \ {s.app} : app(s, a) /\ UNCHANGED phase
Draw2d ==
    Idle /\ \E s \in sessions : DrawBudget(s) /\ draw_2d(s) /\ UNCHANGED phase
Draw3d ==
    Idle /\ \E s \in sessions : DrawBudget(s) /\ draw_3d(s) /\ UNCHANGED phase
DrawReturn == Idle /\ DrawEnd /\ UNCHANGED phase
FromPayload ==
    Idle /\ \E old \in sessions, rebuilt \in Rebuilt :
                from_args(rebuilt, old) /\ UNCHANGED phase

Next ==
    \/ Return
    \/ Advance
    \/ Clone
    \/ App
    \/ Draw2d
    \/ Draw3d
    \/ DrawReturn
    \/ FromPayload

Spec == Init /\ [][Next]_vars

\* ---------------------------------------------------------------- LoopSpec
\* The canonical caller, `for e in window { e.draw_2d(f) }` with a callback
\* that calls nothing back: next on the root, one draw_2d on the yielded
\* session, until next returns None.
LoopInit ==
    /\ \E sz \in Sizes, source \in SeqsUpTo(EventValues \cup {Render(2)}, MaxEvents) :
           new(WindowOf(sz, FALSE, <<>>), source)
    /\ phase = "advance"

LoopAdvance ==
    /\ phase = "advance"
    /\ next(Root)
    /\ phase' = IF IsSome(last'.result) THEN "draw" ELSE "done"

LoopDraw ==
    /\ phase = "draw"
    /\ draw_2d(Unwrap(last.result))
    /\ phase' = IF stack' # <<>> THEN "callback" ELSE "advance"

LoopDrawEnd ==
    /\ phase = "callback"
    /\ DrawEnd
    /\ phase' = "advance"

LoopNext ==
    \/ LoopAdvance
    \/ LoopDraw
    \/ LoopDrawEnd

LoopSpec == LoopInit /\ [][LoopNext]_vars

\* ---------------------------------------------------------------- GenericEvent
\* The event type's own event_id: the identity tag of the event's kind.
EventIdOfEvent(e) == e.kind

\* GenericEvent::event_id: the current event's tag, EventId("") without one.
EventIdOf(s) ==
    IF IsSome(s.event) THEN EventIdOfEvent(Unwrap(s.event)) ELSE ""

\* The typed payload the event type's own with_args hands to the visitor.
PayloadOf(e) ==
    [viewport |-> e.viewport, width |-> e.width, height |-> e.height]

event_id(s) ==
    /\ ~panicked
    /\ last' = [Call("event_id", Some(s), None, None, FALSE, 0, "returned", <<>>)
                  EXCEPT !.value = Some(EventIdOf(s))]
    /\ UNCHANGED <<window, stream, events, cleanupLog, borrowed, sessions,
                   stack, panicked, flushes, callbacks, src0, exhausted>>

\* Mutant of with_args: without an event the visitor gets an empty payload.
with_args_default(s) ==
    /\ ~panicked
    /\ last' = [Call("with_args", Some(s), None, None, TRUE, 0, "returned", <<>>)
                  EXCEPT !.value =
                      IF IsSome(s.event) THEN Some(PayloadOf(Unwrap(s.event)))
                      ELSE Some(PayloadOf(Update))]
    /\ UNCHANGED <<window, stream, events, cleanupLog, borrowed, sessions,
                   stack, panicked, flushes, callbacks, src0, exhausted>>

\* GenericEvent::with_args: self.event.as_ref().unwrap() panics on None,
\* before the visitor is handed anything; otherwise the visitor runs on the
\* event's payload and its result is returned.
with_args(s) ==
    /\ ~panicked
    /\ UNCHANGED <<window, stream, events, cleanupLog, sessions, flushes,
                   callbacks, src0, exhausted>>
    /\ IF ~IsSome(s.event)
       THEN Panic("with_args", s, None, <<>>)
       ELSE /\ last' = [Call("with_args", Some(s), None, None, TRUE, 0,
                             "returned", <<>>)
                          EXCEPT !.value = Some(PayloadOf(Unwrap(s.event)))]
            /\ UNCHANGED <<borrowed, stack, panicked>>

EventId == Idle /\ \E s \in sessions : event_id(s) /\ UNCHANGED phase
WithArgs == Idle /\ \E s \in sessions : with_args(s) /\ UNCHANGED phase

\* A caller that treats sessions as generic events: it advances, draws in
\* 3D, and queries identity and payload, also from inside a drawing callback.
AdapterNext ==
    \/ Return
    \/ Advance
    \/ Draw3d
    \/ DrawReturn
    \/ EventId
    \/ WithArgs

AdapterSpec == Init /\ [][AdapterNext]_vars


\* ---------------------------------------------------------------- WindowSpec
ShouldClose == Idle /\ \E s \in sessions : should_close(s) /\ UNCHANGED phase
Size == Idle /\ \E s \in sessions : size(s) /\ UNCHANGED phase
DrawSize == Idle /\ \E s \in sessions : draw_size(s) /\ UNCHANGED phase
SwapBuffers == Idle /\ \E s \in sessions : swap_buffers(s) /\ UNCHANGED phase
PollEvent == Idle /\ \E s \in sessions : poll_event(s) /\ UNCHANGED phase
GetTitle == Idle /\ \E s \in sessions : get_title(s) /\ UNCHANGED phase
SetTitle ==
    Idle /\ \E s \in sessions : \E title \in Titles \ {window.title} :
                set_title(s, title) /\ UNCHANGED phase
GetExitOnEsc == Idle /\ \E s \in sessions : get_exit_on_esc(s) /\ UNCHANGED phase
SetExitOnEsc ==
    Idle /\ \E s \in sessions : \E value \in BOOLEAN \ {window.exit_on_esc} :
                set_exit_on_esc(s, value) /\ UNCHANGED phase
SetCaptureCursor ==
    Idle /\ \E s \in sessions : \E value \in BOOLEAN \ {window.capture_cursor} :
                set_capture_cursor(s, value) /\ UNCHANGED phase

\* A caller that drives the window through its sessions between advances:
\* the window starts open or with a close request, with a resize and a key
\* press pending as raw events.
WindowSources == SeqsUpTo({Render(1), AfterRender, Resize(1024, 768)}, MaxEvents)

WindowInit ==
    /\ \E closing \in BOOLEAN, source \in WindowSources :
           new(WindowOf(<<800, 600>>, closing, <<RawResize, RawKey>>), source)
    /\ phase = "free"

WindowNext ==
    \/ Return
    \/ Advance
    \/ ShouldClose
    \/ Size
    \/ DrawSize
    \/ SwapBuffers
    \/ PollEvent
    \/ GetTitle
    \/ SetTitle
    \/ GetExitOnEsc
    \/ SetExitOnEsc
    \/ SetCaptureCursor

WindowSpec == WindowInit /\ [][WindowNext]_vars


\* ================================================================ claims
\* Vocabulary of the claims, stated on the data and not through the
\* operators of the model.
Draws == {"draw_2d", "draw_3d"}
IsRenderEvent(o) == o # <<>> /\ o[1].kind = "render"
IsPostPresent(o) == o # <<>> /\ o[1].kind = "after_render"
IsResize(o) == o # <<>> /\ o[1].kind = "resize"
Receiver == last.recv[1]
Returned(op) == last.op = op /\ last.status = "returned"

\* The events pulled from the source so far, in order.
Pulled == SubSeq(src0, 1, Len(src0) - Len(events))

RECURSIVE CountKind(_, _)
CountKind(q, k) ==
    IF q = <<>> THEN 0
    ELSE (IF Head(q).kind = k THEN 1 ELSE 0) + CountKind(Tail(q), k)

\* Position of the first x in q, or 0.
RECURSIVE IndexOf(_, _)
IndexOf(q, x) ==
    IF q = <<>> THEN 0
    ELSE IF Head(q) = x THEN 1
    ELSE IF IndexOf(Tail(q), x) = 0 THEN 0 ELSE 1 + IndexOf(Tail(q), x)

\* C1: a draw_2d or draw_3d call that is not aborted enters its drawing
\* callback if and only if the current event of the session it is called on
\* is a render request; this holds for the eventless root, for yielded
\* sessions and for clones alike, and no callback is ever running for a
\* session whose event is not a render request.
C1_DrawIffRender ==
    /\ (last.op \in Draws /\ last.status # "panicked")
           => (last.ran <=> IsRenderEvent(Receiver.event))
    /\ \A i \in 1..Len(stack) : IsRenderEvent(stack[i].sess.event)
    /\ (last.op \in Draws /\ last.status = "callback")
           => /\ stack # <<>>
              /\ stack[Len(stack)].sess = Receiver
              /\ callbacks # <<>>
              /\ callbacks[Len(callbacks)].op = last.op

C1_Witness ==
    /\ Returned("draw_2d") /\ last.ran
    /\ IsRenderEvent(Receiver.event)
    /\ \E s \in sessions : ~IsRenderEvent(s.event) /\ s.event # <<>>

\* C2 (as claimed): when next has pulled a resize notification carrying
\* (W, H), the stream's output is exactly W wide and H high once next has
\* returned.
C2_ResizeExact ==
    (Returned("next") /\ IsResize(last.pulled))
        => /\ stream.width = last.pulled[1].width
           /\ stream.height = last.pulled[1].height

\* C3: the number of device cleanups equals the number of post-present
\* notifications pulled so far; a next that returns ran cleanup exactly when
\* its event is a post-present notification, and then before it yielded the
\* session carrying it.
C3_CleanupPerPostPresent ==
    /\ Len(cleanupLog) = CountKind(Pulled, "after_render")
    /\ (Returned("next") /\ last.pulled # <<>>)
           => IF IsPostPresent(last.pulled)
              THEN /\ IndexOf(last.effects, "cleanup") > 0
                   /\ IndexOf(last.effects, "cleanup") < IndexOf(last.effects, "yield")
                   /\ cleanupLog # <<>>
              ELSE IndexOf(last.effects, "cleanup") = 0

C3_Witness ==
    /\ Returned("next") /\ IsPostPresent(last.pulled)
    /\ Len(cleanupLog) = 2

\* C4: a next that returns yields a session exactly when the source still
\* had an event, and that session carries the next event in source order;
\* it yields nothing only when every event of the source has been pulled,
\* and once a next has yielded nothing the source stays empty, so that every
\* later next yields nothing as well.
C4_EndsExactlyWhenExhausted ==
    /\ Returned("next")
           => IF last.result # <<>>
              THEN /\ Pulled # <<>>
                   /\ last.pulled = <<src0[Len(Pulled)]>>
                   /\ last.result[1].event = last.pulled
                   /\ ~exhausted
              ELSE /\ events = <<>>
                   /\ Pulled = src0
                   /\ exhausted
    /\ exhausted => events = <<>>

C4_Witness ==
    /\ Returned("next") /\ last.result = <<>>
    /\ Len(src0) = MaxEvents
    /\ Len(cleanupLog) > 0

\* C5: every session the caller can hold, every session an operation
\* returns and every session a draw is running for has the window, stream,
\* device, g2d, events and factory handles of the root session.
SameCells(s) ==
    /\ s.window = Root.window
    /\ s.stream = Root.stream
    /\ s.device = Root.device
    /\ s.g2d = Root.g2d
    /\ s.events = Root.events
    /\ s.factory = Root.factory

C5_LineageSharesCells ==
    /\ \A s \in sessions : SameCells(s)
    /\ last.result # <<>> => SameCells(last.result[1])
    /\ \A i \in 1..Len(stack) : SameCells(stack[i].sess)

C5_Witness ==
    /\ Returned("from_args") /\ last.result # <<>>
    /\ last.result[1].app = NewApp
    /\ Receiver.event # last.result[1].event
    /\ Pulled # <<>>

\* C6: a step that is an app call returns the receiver with only its app
\* handle replaced (same cells, same current event) and leaves the event
\* source, the cleanups, the stream's dimensions, the flush count and the
\* callbacks as they were; and a draw_2d on a render session enters its
\* callback and flushes exactly once whichever app handle the session has.
C6_AppStep ==
    last'.op = "app"
        => /\ last'.result # <<>>
           /\ SameCells(last'.result[1])
           /\ \A f \in {"window", "stream", "device", "g2d", "events", "factory", "event"} :
                  last'.result[1][f] = last'.recv[1][f]
           /\ last'.status = "returned"
           /\ UNCHANGED <<window, stream, events, cleanupLog, borrowed, stack,
                          panicked, flushes, callbacks>>

C6_DrawAfterApp ==
    (Returned("draw_2d") /\ last.depth = 0 /\ IsRenderEvent(Receiver.event))
        => /\ last.ran
           /\ last.flushed = 1
           /\ \A a \in Apps :
                  [Receiver EXCEPT !.app = a] \in sessions

C6_AppKeepsCellsAndEvent == [][C6_AppStep]_vars /\ []C6_DrawAfterApp

C6_Witness ==
    /\ Returned("draw_2d") /\ last.ran /\ last.flushed = 1
    /\ Receiver.app = NewApp
    /\ Receiver.event = <<Render(1)>>

\* C7: a draw_2d or draw_3d call made on a render-request session while a
\* drawing callback is running (the stream is exclusively held) panics: its
\* callback is not entered and it issues no flush.
C7_NestedStep ==
    (last'.op \in Draws /\ last'.depth > 0 /\ IsRenderEvent(last'.recv[1].event))
        => /\ stack # <<>>
           /\ last'.recv[1].stream \in borrowed
           /\ last'.status = "panicked"
           /\ ~last'.ran
           /\ panicked'
           /\ callbacks' = callbacks
           /\ flushes' = flushes

C7_ReentrantDrawAborts == [][C7_NestedStep]_vars

C7_Witness ==
    /\ last.op = "draw_2d" /\ last.status = "panicked"
    /\ last.depth = 1
    /\ callbacks = <<[op |-> "draw_3d", arg |-> <<>>]>>
    /\ flushes = 0

\* C8: in the canonical loop over the source <<render request with viewport
\* V, post-present notification>>, once the loop has ended the drawing
\* callback has been entered exactly once, by draw_2d with viewport V, one
\* flush has been issued, and the device has been cleaned up exactly once,
\* when that flush had already been issued and no callback was running.
C8_ScenarioA ==
    \A v \in {1, 2} :
        (src0 = <<Render(v), AfterRender>> /\ phase = "done")
            => /\ callbacks = <<[op |-> "draw_2d", arg |-> <<v>>]>>
               /\ flushes = 1
               /\ cleanupLog = <<[flushes |-> 1, depth |-> 0]>>

C8_Witness ==
    /\ src0 = <<Render(2), AfterRender>>
    /\ phase = "done"

\* C9: a step that is a draw_2d or draw_3d call on a session whose current
\* event is absent or is not a render request returns without entering a
\* callback and changes nothing: no flush, no borrow, no panic (also from
\* inside a running callback), same event source, stream and cleanups.
C9_SkipStep ==
    (last'.op \in Draws /\ ~IsRenderEvent(last'.recv[1].event))
        => /\ last'.status = "returned"
           /\ ~last'.ran
           /\ last'.flushed = 0
           /\ UNCHANGED <<window, stream, events, cleanupLog, borrowed, stack,
                          panicked, flushes, callbacks, sessions>>

C9_NonRenderDrawIsNoOp == [][C9_SkipStep]_vars

C9_Witness ==
    /\ Returned("draw_3d") /\ ~last.ran
    /\ last.depth = 1
    /\ Receiver.event = <<Update>>
    /\ stack # <<>>

\* C10: while the callback of a draw call runs, the stream is exclusively
\* held and no flush has been issued since the call began; draw_2d's callback
\* got the viewport of its session's render request and runs with g2d held,
\* draw_3d's runs with g2d free; the call ends by exactly one flush, issued
\* after the callback and before the stream is released.
C10_WhileRunning ==
    \A i \in 1..Len(stack) :
        LET f == stack[i] IN
        /\ f.sess.stream \in borrowed
        /\ flushes = f.flushes0
        /\ callbacks # <<>>
        /\ callbacks[Len(callbacks)].op = f.op
        /\ IF f.op = "draw_2d"
           THEN /\ f.sess.g2d \in borrowed
                /\ callbacks[Len(callbacks)].arg = <<f.sess.event[1].viewport>>
           ELSE /\ f.sess.g2d \notin borrowed
                /\ callbacks[Len(callbacks)].arg = <<>>

C10_EndStep ==
    (last'.op \in Draws /\ last'.status = "returned" /\ last'.ran)
        => /\ stack # <<>>
           /\ stack[Len(stack)].sess = last'.recv[1]
           /\ stack' = SubSeq(stack, 1, Len(stack) - 1)
           /\ flushes' = flushes + 1
           /\ last'.flushed = 1
           /\ callbacks' = callbacks
           /\ borrowed' = borrowed \ {last'.recv[1].stream, last'.recv[1].g2d}
           /\ LET eff == last'.effects IN
              /\ IndexOf(eff, "borrow_stream") = 1
              /\ IndexOf(eff, "callback") < IndexOf(eff, "flush")
              /\ IndexOf(eff, "flush") < IndexOf(eff, "release_stream")
              /\ CountKind([i \in 1..Len(eff) |-> [kind |-> eff[i]]], "flush") = 1
              /\ (last'.op = "draw_3d") => IndexOf(eff, "borrow_g2d") = 0

C10_AcquireCallbackFlush == []C10_WhileRunning /\ [][C10_EndStep]_vars

C10_Witness ==
    /\ Returned("draw_3d") /\ last.ran
    /\ callbacks = <<[op |-> "draw_3d", arg |-> <<>>]>>
    /\ flushes = 1 /\ borrowed = {}

\* C11: event_id returns the identity tag of the session's current event and
\* the empty tag for a session without one; with_args on a session with a
\* current event runs the visitor on that event's payload, and on a session
\* without one it panics without running the visitor.
C11_EventIdAndWithArgs ==
    /\ last.op = "event_id"
           => /\ last.status = "returned"
              /\ last.value = IF Receiver.event = <<>> THEN <<"">>
                              ELSE <<Receiver.event[1].kind>>
    /\ last.op = "with_args"
           => IF Receiver.event = <<>>
              THEN last.status = "panicked" /\ ~last.ran /\ last.value = <<>> /\ panicked
              ELSE /\ last.status = "returned" /\ last.ran
                   /\ last.value = <<[viewport |-> Receiver.event[1].viewport,
                                      width |-> Receiver.event[1].width,
                                      height |-> Receiver.event[1].height]>>

C11_Witness ==
    /\ last.op = "with_args" /\ last.status = "panicked"
    /\ Receiver = Root
    /\ Pulled # <<>>

\* C12: from_args returns nothing when the prior session has no current
\* event or when the event type's reconstruction returns nothing; otherwise
\* it returns a session equal to the prior one (same cells, same app handle)
\* except that its current event is the reconstructed event.  The call pulls
\* no event, runs no cleanup, changes no dimensions and flushes nothing.
C12_FromArgsStep ==
    last'.op = "from_args"
        => /\ last'.status = "returned"
           /\ last'.result =
                  IF last'.recv[1].event = <<>> THEN <<>>
                  ELSE IF last'.arg = <<>> THEN <<>>
                  ELSE <<[last'.recv[1] EXCEPT !.event = last'.arg]>>
           /\ UNCHANGED <<window, stream, events, cleanupLog, borrowed, stack,
                          panicked, flushes, callbacks, exhausted>>

C12_FromArgs == [][C12_FromArgsStep]_vars

C12_Witness ==
    /\ last.op = "from_args"
    /\ last.arg = <<Render(2)>>
    /\ Receiver.event = <<AfterRender>>
    /\ Receiver.app = NewApp
    /\ last.result = <<[Receiver EXCEPT !.event = <<Render(2)>>]>>
    /\ Len(cleanupLog) = 1

\* C13 (as claimed): right after new, and right after every next that pulled
\* a resize notification, the stream's output width and height equal the
\* window's drawable width and height, whatever 32-bit size the window
\* reports.
C13_OutputEqualsDrawable ==
    (last.op = "new" \/ (Returned("next") /\ IsResize(last.pulled)))
        => /\ stream.width = window.draw_size[1]
           /\ stream.height = window.draw_size[2]

\* C14: a step that is a window-delegate call (should_close, size,
\* draw_size, swap_buffers, poll_event, get_title, set_title,
\* get_exit_on_esc, set_exit_on_esc, set_capture_cursor) returns what the
\* shared window answers and changes at most the window: the cleanups, the
\* stream's dimensions, the flush count, the callbacks, the event source and
\* every session's current event stay as they were, also when the polled raw
\* event is a resize or the swap presents a frame.
WindowQueries ==
    {"should_close", "size", "draw_size", "get_title", "get_exit_on_esc"}
WindowCommands ==
    {"swap_buffers", "poll_event", "set_title", "set_exit_on_esc",
     "set_capture_cursor"}

C14_DelegateStep ==
    last'.op \in WindowQueries \cup WindowCommands
        => /\ last'.status = "returned"
           /\ UNCHANGED <<stream, events, cleanupLog, sessions, flushes,
                          callbacks, borrowed, stack, panicked, exhausted>>
           /\ last'.op \in WindowQueries => window' = window
           /\ last'.op = "should_close" => last'.value = <<window.should_close>>
           /\ last'.op = "size" => last'.value = <<window.size>>
           /\ last'.op = "draw_size" => last'.value = <<window.draw_size>>
           /\ last'.op = "get_title" => last'.value = <<window.title>>
           /\ last'.op = "get_exit_on_esc" => last'.value = <<window.exit_on_esc>>
           /\ last'.op = "swap_buffers"
                  => /\ last'.value = <<>>
                     /\ window' = [window EXCEPT !.front = 1 - window.front]
           /\ last'.op = "poll_event"
                  => IF window.raw = <<>>
                     THEN last'.value = << <<>> >> /\ window' = window
                     ELSE /\ last'.value = << <<window.raw[1]>> >>
                          /\ window' = [window EXCEPT !.raw = Tail(window.raw)]
           /\ last'.op = "set_title"
                  => /\ last'.value = <<>>
                     /\ window' = [window EXCEPT !.title = last'.arg[1]]
           /\ last'.op = "set_exit_on_esc"
                  => /\ last'.value = <<>>
                     /\ window' = [window EXCEPT !.exit_on_esc = last'.arg[1]]
           /\ last'.op = "set_capture_cursor"
                  => /\ last'.value = <<>>
                     /\ window' = [window EXCEPT !.capture_cursor = last'.arg[1]]

C14_DelegatesTouchOnlyWindow == [][C14_DelegateStep]_vars

\* A session carrying a post-present notification has swapped the buffers
\* and polled the pending raw resize; the one cleanup is the one next ran.
C14_Witness ==
    /\ last.op = "poll_event"
    /\ last.value = << <<RawResize>> >>
    /\ window.front = 1
    /\ IsPostPresent(Receiver.event)
    /\ Len(cleanupLog) = 1
    /\ window.title = "game"

\* C15: a next step that yields a session pulls exactly the head of the event
\* source and yields a session carrying it; it runs one cleanup exactly when
\* that event is a post-present notification and sets the stream's
\* dimensions exactly when it is a resize notification, in the order pull,
\* cleanup, dimension update, yield; for any other kind the cleanups and the
\* dimensions stay as they were.  No next step, yielding or not, enters a
\* callback or issues a flush.
C15_ExpectedEffects(e) ==
    <<"pull">>
        \o (IF e.kind = "after_render" THEN <<"cleanup">> ELSE <<>>)
        \o (IF e.kind = "resize" THEN <<"resize">> ELSE <<>>)
        \o <<"yield">>

C15_AdvanceStep ==
    /\ last'.op = "next"
           => /\ callbacks' = callbacks
              /\ flushes' = flushes
              /\ ~last'.ran
              /\ last'.flushed = 0
    /\ (last'.op = "next" /\ last'.status = "returned" /\ last'.result # <<>>)
           => /\ events # <<>>
              /\ events' = Tail(events)
              /\ last'.pulled = <<Head(events)>>
              /\ last'.result[1].event = <<Head(events)>>
              /\ last'.effects = C15_ExpectedEffects(Head(events))
              /\ Len(cleanupLog') =
                     Len(cleanupLog)
                         + (IF Head(events).kind = "after_render" THEN 1 ELSE 0)
              /\ Head(events).kind # "resize" => stream' = stream
              /\ Head(events).kind = "resize"
                     => /\ stream'.width = window'.draw_size[1] % U16Mod
                        /\ stream'.height = window'.draw_size[2] % U16Mod

C15_OneEventPerAdvance == [][C15_AdvanceStep]_vars

C15_Witness ==
    /\ Returned("next")
    /\ last.pulled = <<Update>>
    /\ last.result # <<>>
    /\ Len(cleanupLog) = 1
    /\ last.depth = 1

\* C16 (as claimed): no device cleanup runs while a draw_2d or draw_3d call
\* is in progress, that is between its acquiring the stream and the end of
\* its flush, even when next is called from inside the drawing callback, and
\* the stream's dimensions do not change during that time.
C16_DrawStep ==
    stack # <<>>
        => /\ cleanupLog' = cleanupLog
           /\ stream' = stream

C16_NoCleanupDuringDraw == [][C16_DrawStep]_vars

\* C17 (as claimed): a next, draw_2d or draw_3d step that panics because a
\* cell it needs is already exclusively held leaves the shared state as it
\* was: no event pulled from the source, no cleanup run, no dimension
\* changed, no flush issued.
C17_AbortStep ==
    (last'.op \in {"next", "draw_2d", "draw_3d"} /\ last'.status = "panicked"
        /\ last'.depth > 0)
        => /\ events' = events
           /\ cleanupLog' = cleanupLog
           /\ stream' = stream
           /\ flushes' = flushes

C17_AbortChangesNothing == [][C17_AbortStep]_vars

\* C18 (as claimed): whichever session of the lineage next is called on, and
\* however the calls interleave, every event that leaves the shared source
\* is the head of the source and is yielded by the call that took it, so
\* that each source event is yielded exactly once, in source order, and none
\* is skipped.
C18_PullStep ==
    events' # events
        => /\ events # <<>>
           /\ events' = Tail(events)
           /\ last'.op = "next"
           /\ last'.status = "returned"
           /\ last'.result # <<>>
           /\ last'.result[1].event = <<Head(events)>>

C18_EveryPulledEventIsYielded == [][C18_PullStep]_vars

\* C19: a next step leaves its receiver as it was: the receiver, with its
\* event and handles, is still among the sessions the caller holds, as is
\* every other session held before, and the yielded session has the
\* receiver's handles and the pulled event.  So the root session, which has
\* no event, stays held however often it is advanced, and a draw on it is a
\* no-op; and a draw on a retained render-request session enters its
\* callback and flushes once whatever was pulled and cleaned up since.
C19_AdvanceStep ==
    last'.op = "next"
        => /\ last'.recv[1] \in sessions
           /\ last'.recv[1] \in sessions'
           /\ sessions \subseteq sessions'
           /\ last'.result # <<>>
                  => /\ last'.result[1] =
                            [last'.recv[1] EXCEPT !.event = last'.pulled]
                     /\ last'.result[1] \in sessions'

C19_RootAndRetained ==
    /\ Root \in sessions
    /\ Root.event = <<>>
    /\ (last.op \in Draws /\ Receiver.event = <<>>)
           => last.status = "returned" /\ ~last.ran /\ last.flushed = 0
    /\ (Returned("draw_2d") /\ last.depth = 0 /\ IsRenderEvent(Receiver.event))
           => last.ran /\ last.flushed = 1
    /\ (Returned("draw_3d") /\ last.depth = 0 /\ IsRenderEvent(Receiver.event))
           => last.ran /\ last.flushed = 1

C19_AdvanceKeepsReceiver == [][C19_AdvanceStep]_vars /\ []C19_RootAndRetained

\* The render session yielded first is drawn after the post-present
\* notification that followed it was pulled and cleaned up, with the root
\* still eventless.
C19_Witness ==
    /\ Returned("draw_3d") /\ last.ran /\ last.flushed = 1
    /\ Receiver.event = <<Render(1)>>
    /\ Pulled = <<Render(1), AfterRender>>
    /\ Len(cleanupLog) = 1
    /\ Root \in sessions

====
